---- MODULE Spec2Model ----
(***************************************************************************)
(* State-machine model of the exist_search Telegram relay:                 *)
(*   utils.py          with_retry, validate_input, format_error_message,   *)
(*                     MetricsTracker                                      *)
(*   openai_client.py  generate_response (wrapped by with_retry)           *)
(*   main.py           process_update, handle_message (inline retry loop)  *)
(*   fastapi_bot.py    process_update, handle_message                      *)
(*   main_webhook.py   handle_message                                      *)
(*                                                                         *)
(* Every task is one coroutine run by the single asyncio event loop.  A    *)
(* task keeps the loop (running = {t}) from one await that really suspends *)
(* to the next; the labels in AwaitPoints are those suspension points.     *)
(*                                                                         *)
(* Environment: every chat.completions.create call may return a message,   *)
(* return one without content, or raise; the send_chat_action call may     *)
(* raise; reply_text delivers the message it is given.                     *)
(***************************************************************************)
EXTENDS Integers, Sequences, FiniteSets, TLC

\* ------------------------------------------------------------------ bounds
NTasks == 2
MaxRetriesBound == 1
MaxElapsed == 1

\* ------------------------------------------------------- program constants
MAX_LENGTH == 4000
HANDLER_MAX_RETRIES == 2
BASE_RETRY_DELAY == 1

Tasks == 1..NTasks

\* values with_retry's max_retries argument is drawn from (the decorator
\* argument is any non-negative integer; openai_client.py passes 3)
RetryBudgets == 0..MaxRetriesBound

\* the stub upstream fails on its first n invocations and succeeds
\* afterwards; r + 1 failures exhaust the budget r, so a stub with
\* n = r + 1 is one that fails on every invocation
FailPlans(r) == 0..(r + 1)

\* --------------------------------------------------------- exception kinds
ClassifiedKinds == {"APIError", "RateLimitError", "APIConnectionError"}
\* what a chat.completions.create call can raise besides TypeError
UpstreamKinds == ClassifiedKinds \cup {"Other"}
\* an exception is its class name and what sets one instance of the class
\* apart from another (its text): here the attempt that raised it
NoExc == [kind |-> "", at |-> 0]

\* ------------------------------------------------------------------ texts
\* a string is the sequence of its characters; None is the marker below
NoneContent == <<"None">>
Whitespace == {" ", "\n"}
Contents == { <<"H", "i">>, <<" ", "H", "i", "\n">> }

RECURSIVE lstrip(_)
lstrip(s) ==
    IF s = <<>> THEN <<>>
    ELSE IF Head(s) \in Whitespace THEN lstrip(Tail(s)) ELSE s

RECURSIVE rstrip(_)
rstrip(s) ==
    IF s = <<>> THEN <<>>
    ELSE IF s[Len(s)] \in Whitespace THEN rstrip(SubSeq(s, 1, Len(s) - 1)) ELSE s

\* str.strip()
strip(s) == rstrip(lstrip(s))

VARIABLES
    entry,        \* which coroutine the task runs
    pc,           \* the task's position
    running,      \* the set holding the task that has the event loop, if any
    max_retries,  \* with_retry's max_retries / handle_message's max_retries
    retry_count,  \* wrapper's / handle_message's retry_count
    failFirst,    \* stub upstream: number of leading failing invocations
    text,         \* the inbound text: its Python type and its length
    invocations,  \* invocations of the wrapped operation / upstream attempts
    content,      \* message content returned by the upstream
    exc,          \* the exception in flight
    frame,        \* the frame of the record_request call in progress
    ret,          \* value returned by the wrapped call
    raised,       \* exception propagated out of the task's coroutine
    attemptRecs,  \* had_error flags recorded by the current attempt
    recorded,     \* had_error flags recorded by the task so far
    replies,      \* messages the task sent to the chat
    status,       \* HTTP status answered by process_update
    metrics,      \* the global MetricsTracker
    total_delay,  \* wrapper's total_delay / handle_message's wait_time
    recordedTime  \* sum of the processing times passed to record_request

vars == << entry, frame, pc, running, max_retries, retry_count, failFirst, text,
           invocations, content, exc, ret, raised, attemptRecs,
           recorded, replies, status, metrics, total_delay, recordedTime >>

\* ------------------------------------------------------------- scheduling
\* awaits that suspend the coroutine (asyncio.sleep, network awaits) and the
\* not-yet-started state; everything else runs without leaving the loop
\* record_request with a suspension between reading and writing the count
AwaitPointsMetrics_suspending == {"m_count_store"}

\* record_request is a plain method: it contains no await
AwaitPointsMetrics == {}
AwaitPointsUtils ==
    {"w_new", "w_backoff", "v_new", "f_new", "gm_new", "r_new"}
        \cup AwaitPointsMetrics
AwaitPointsBot == {"p_new", "p_json", "h_typing", "h_reply", "h_reply_err",
                   "s_reply", "s_reply_err"}
Terminal == {"returned", "raised", "responded"}
AwaitPoints == AwaitPointsUtils \cup AwaitPointsBot \cup Terminal

CanRun(t) == running = {t} \/ (running = {} /\ pc[t] \in AwaitPoints)

Goto(t, label) ==
    /\ pc' = [pc EXCEPT ![t] = label]
    /\ running' = IF label \in AwaitPoints THEN {} ELSE {t}

\* the coroutine's frame is dropped on return and on raise: its locals
\* (retry_count, response, the caught exception) are gone
DropFrame(t) ==
    /\ retry_count' = [retry_count EXCEPT ![t] = 0]
    /\ content' = [content EXCEPT ![t] = <<>>]
    /\ exc' = [exc EXCEPT ![t] = NoExc]

\* ----------------------------------------------------------------- metrics
\* MetricsTracker.__init__
MetricsInit ==
    [request_count |-> 0, error_count |-> 0, total_processing_time |-> 0,
     start_time |-> "time.time() at construction"]

NoFrame == [processing_time |-> 0, had_error |-> FALSE, tmp |-> 0, ret_to |-> ""]

\* metrics.record_request(processing_time, had_error), returning to ret_to
CallRecordRequest(t, had_error, ret_to) ==
    /\ \E processing_time \in 0..MaxElapsed :
          frame' = [frame EXCEPT ![t] = [processing_time |-> processing_time,
                                         had_error |-> had_error,
                                         tmp |-> 0, ret_to |-> ret_to]]
    /\ Goto(t, "m_count")

\* self.request_count += 1: the attribute is read ...
record_request_count(t) ==
    /\ pc[t] = "m_count"
    /\ CanRun(t)
    /\ frame' = [frame EXCEPT ![t].tmp = metrics.request_count]
    /\ Goto(t, "m_count_store")
    /\ UNCHANGED << entry, total_delay, recordedTime, max_retries, retry_count, failFirst, text,
                    invocations, content, exc, ret, raised, attemptRecs,
                    recorded, replies, status, metrics >>

\* ... and written back one higher
record_request_count_store(t) ==
    /\ pc[t] = "m_count_store"
    /\ CanRun(t)
    /\ metrics' = [metrics EXCEPT !.request_count = frame[t].tmp + 1]
    /\ attemptRecs' = [attemptRecs EXCEPT ![t] = Append(@, frame[t].had_error)]
    /\ recorded' = [recorded EXCEPT ![t].n = @ + 1]
    /\ Goto(t, "m_time")
    /\ UNCHANGED << entry, total_delay, recordedTime, frame, max_retries, retry_count, failFirst, text,
                    invocations, content, exc, ret, raised, replies, status >>

\* self.total_processing_time += processing_time: read ...
record_request_time(t) ==
    /\ pc[t] = "m_time"
    /\ CanRun(t)
    /\ frame' = [frame EXCEPT ![t].tmp = metrics.total_processing_time]
    /\ Goto(t, "m_time_store")
    /\ UNCHANGED << entry, total_delay, recordedTime, max_retries, retry_count, failFirst, text,
                    invocations, content, exc, ret, raised, attemptRecs,
                    recorded, replies, status, metrics >>

\* ... and written back
record_request_time_store(t) ==
    /\ pc[t] = "m_time_store"
    /\ CanRun(t)
    /\ metrics' = [metrics EXCEPT !.total_processing_time =
                        frame[t].tmp + frame[t].processing_time]
    /\ recordedTime' = recordedTime + frame[t].processing_time
    /\ Goto(t, "m_error")
    /\ UNCHANGED << entry, total_delay, frame, max_retries, retry_count, failFirst, text,
                    invocations, content, exc, ret, raised, attemptRecs,
                    recorded, replies, status >>

\* record_request_error with the test of had_error left out
record_request_error_always(t) ==
    /\ pc[t] = "m_error"
    /\ CanRun(t)
    /\ frame' = [frame EXCEPT ![t].tmp = metrics.error_count]
    /\ Goto(t, "m_error_store")
    /\ UNCHANGED << entry, total_delay, recordedTime, max_retries, retry_count,
                    failFirst, text, invocations, content, exc, ret, raised,
                    attemptRecs, recorded, replies, status, metrics >>

\* if had_error: self.error_count += 1 (read); otherwise the method returns
record_request_error(t) ==
    /\ pc[t] = "m_error"
    /\ CanRun(t)
    /\ IF frame[t].had_error
       THEN /\ frame' = [frame EXCEPT ![t].tmp = metrics.error_count]
            /\ Goto(t, "m_error_store")
       ELSE /\ frame' = [frame EXCEPT ![t] = NoFrame]
            /\ Goto(t, frame[t].ret_to)
    /\ UNCHANGED << entry, total_delay, recordedTime, max_retries, retry_count, failFirst, text,
                    invocations, content, exc, ret, raised, attemptRecs,
                    recorded, replies, status, metrics >>

\* the error count is written back one higher; the method returns
record_request_error_store(t) ==
    /\ pc[t] = "m_error_store"
    /\ CanRun(t)
    /\ metrics' = [metrics EXCEPT !.error_count = frame[t].tmp + 1]
    /\ recorded' = [recorded EXCEPT ![t].errors = @ + 1]
    /\ frame' = [frame EXCEPT ![t] = NoFrame]
    /\ Goto(t, frame[t].ret_to)
    /\ UNCHANGED << entry, total_delay, recordedTime, max_retries, retry_count, failFirst, text,
                    invocations, content, exc, ret, raised, attemptRecs,
                    replies, status >>

\* max(1, n) with the floor left out
max_unfloored(a, b) == b

\* the builtin max of two numbers
max(a, b) == IF a >= b THEN a ELSE b

\* a / b: the quotient as the fraction num/den; evaluating it with den = 0
\* raises ZeroDivisionError
Quotient(a, b) == [num |-> a, den |-> b]

\* MetricsTracker.get_metrics(), without the two entries computed from the
\* clock (uptime_seconds, requests_per_minute)
get_metrics(self) ==
    [total_requests |-> self.request_count,
     error_rate |-> Quotient(self.error_count, max(1, self.request_count)),
     avg_processing_time |->
         Quotient(self.total_processing_time, max(1, self.request_count))]

\* get_metrics_call with the counters cleared once the snapshot is taken
get_metrics_call_resetting(t) ==
    /\ entry[t] = "get_metrics"
    /\ pc[t] = "gm_new"
    /\ CanRun(t)
    /\ ret' = [ret EXCEPT ![t] = << get_metrics(metrics) >>]
    /\ metrics' = [metrics EXCEPT !.request_count = 0, !.error_count = 0,
                                  !.total_processing_time = 0]
    /\ Goto(t, "returned")
    /\ UNCHANGED << entry, total_delay, recordedTime, frame, max_retries,
                    retry_count, failFirst, text, invocations, content, exc,
                    raised, attemptRecs, recorded, replies, status >>

\* a call metrics.get_metrics(): the dict is built from reads of the
\* tracker's attributes and returned; the method has no await
get_metrics_call(t) ==
    /\ entry[t] = "get_metrics"
    /\ pc[t] = "gm_new"
    /\ CanRun(t)
    /\ ret' = [ret EXCEPT ![t] = << get_metrics(metrics) >>]
    /\ Goto(t, "returned")
    /\ UNCHANGED << entry, total_delay, recordedTime, frame, max_retries,
                    retry_count, failFirst, text, invocations, content, exc,
                    raised, attemptRecs, recorded, replies, status, metrics >>

\* a call metrics.record_request(processing_time, had_error) made directly
record_request_call(t) ==
    /\ entry[t] = "record_request"
    /\ pc[t] = "r_new"
    /\ CanRun(t)
    /\ \E had_error \in BOOLEAN : CallRecordRequest(t, had_error, "returned")
    /\ UNCHANGED << entry, total_delay, recordedTime, max_retries, retry_count,
                    failFirst, text, invocations, content, exc, ret, raised,
                    attemptRecs, recorded, replies, status, metrics >>

\* --------------------------------------------------------- stub upstream
\* a direct call of the wrapped generate_response runs against a stub that
\* fails on its first failFirst[t] invocations and succeeds afterwards; the
\* upstream the bots talk to may do either on every invocation
Scripted(t) == entry[t] = "generate_response"
AttemptSucceeds(t) == ~Scripted(t) \/ invocations[t] > failFirst[t]
AttemptFails(t) == ~Scripted(t) \/ invocations[t] <= failFirst[t]

\* what the first create call (with timeout=60) does: returns a message,
\* raises TypeError (SDK without the timeout parameter), or raises a failure
CreateCall(t, okLabel, typeErrorLabel, failLabel) ==
    /\ \/ /\ AttemptSucceeds(t)
          /\ \E c \in Contents : content' = [content EXCEPT ![t] = c]
          /\ exc' = exc
          /\ Goto(t, okLabel)
       \/ /\ AttemptFails(t)
          /\ content' = [content EXCEPT ![t] = NoneContent]
          /\ exc' = exc
          /\ Goto(t, okLabel)
       \/ /\ exc' = [exc EXCEPT ![t] = [kind |-> "TypeError", at |-> invocations[t]]]
          /\ content' = content
          /\ Goto(t, typeErrorLabel)
       \/ /\ AttemptFails(t)
          /\ \E k \in UpstreamKinds :
                exc' = [exc EXCEPT ![t] = [kind |-> k, at |-> invocations[t]]]
          /\ content' = content
          /\ Goto(t, failLabel)

\* the second create call, made without timeout after a TypeError
FallbackCall(t, okLabel, failLabel) ==
    /\ \/ /\ AttemptSucceeds(t)
          /\ \E c \in Contents : content' = [content EXCEPT ![t] = c]
          /\ exc' = [exc EXCEPT ![t] = NoExc]
          /\ Goto(t, okLabel)
       \/ /\ AttemptFails(t)
          /\ content' = [content EXCEPT ![t] = NoneContent]
          /\ exc' = [exc EXCEPT ![t] = NoExc]
          /\ Goto(t, okLabel)
       \/ /\ AttemptFails(t)
          /\ \E k \in UpstreamKinds \cup {"TypeError"} :
                exc' = [exc EXCEPT ![t] = [kind |-> k, at |-> invocations[t]]]
          /\ content' = content
          /\ Goto(t, failLabel)

\* ------------------------------------------------ utils.py: with_retry
\* names bound at module level of utils.py
UtilsGlobals == {"logging", "time", "random", "httpx", "wraps", "logger",
                 "MAX_RETRIES", "BASE_RETRY_DELAY"}

\* durations are counted in tenths of a second
Seconds(n) == n * 10

\* delay = base_delay * (2 ** (retry_count - 1))
delay(base_delay, k) == Seconds(base_delay) * 2^(k - 1)

\* jitter = random.uniform(0, 0.1 * delay).  uniform(0, b) returns
\* 0 + (b - 0) * random() with random() in [0, 1); in double arithmetic
\* delay + jitter reaches delay * 1.1 (1 + 0.09999999999999999 == 1.1), so
\* the upper end is among the values total_delay takes
Jitters(d) == 0..(d \div 10)

\* retry_count = 0
wrapper_enter(t) ==
    /\ entry[t] = "generate_response"
    /\ pc[t] = "w_new"
    /\ CanRun(t)
    /\ retry_count' = [retry_count EXCEPT ![t] = 0]
    /\ Goto(t, "w_loop")
    /\ UNCHANGED << entry, total_delay, recordedTime, frame, max_retries, failFirst, text, invocations,
                    content, exc, ret, raised, attemptRecs, recorded, replies,
                    status, metrics >>

\* while retry_count <= max_retries: try: ... await func(*args, **kwargs)
\* (falling out of the loop raises RuntimeError)
wrapper_loop(t) ==
    /\ pc[t] = "w_loop"
    /\ CanRun(t)
    /\ IF retry_count[t] <= max_retries[t]
       THEN /\ invocations' = [invocations EXCEPT ![t] = @ + 1]
            /\ attemptRecs' = [attemptRecs EXCEPT ![t] = <<>>]
            /\ exc' = [exc EXCEPT ![t] = NoExc]
            /\ UNCHANGED << raised, retry_count, content >>
            /\ Goto(t, "g_create")
       ELSE /\ raised' = [raised EXCEPT ![t] = [kind |-> "RuntimeError", at |-> 0]]
            /\ UNCHANGED << invocations, attemptRecs >>
            /\ DropFrame(t)
            /\ Goto(t, "raised")
    /\ UNCHANGED << entry, total_delay, recordedTime, frame, max_retries, failFirst, text, ret, replies,
                    recorded, status, metrics >>

\* wrapper_return without the return statement: the value is dropped and the
\* loop goes round
wrapper_return_dropped(t) ==
    /\ pc[t] = "w_return"
    /\ CanRun(t)
    /\ Goto(t, "w_loop")
    /\ UNCHANGED << entry, total_delay, recordedTime, frame, max_retries, retry_count, failFirst, text,
                    invocations, content, exc, ret, raised, attemptRecs,
                    recorded, replies, status, metrics >>

\* return await func(*args, **kwargs): the operation returned a value
wrapper_return(t) ==
    /\ pc[t] = "w_return"
    /\ CanRun(t)
    /\ ret' = [ret EXCEPT ![t] = strip(content[t])]
    /\ DropFrame(t)
    /\ Goto(t, "returned")
    /\ UNCHANGED << entry, total_delay, recordedTime, frame, max_retries, failFirst, text, invocations, raised,
                    attemptRecs, recorded, replies, status, metrics >>

\* wrapper_except with retry_count kept in one place for all invocations
\* (a counter bound outside wrapper): the increment shows in every task
wrapper_except_shared(t) ==
    /\ pc[t] = "w_except"
    /\ CanRun(t)
    /\ IF retry_count[t] + 1 > max_retries[t]
       THEN /\ raised' = [raised EXCEPT ![t] = exc[t]]
            /\ total_delay' = total_delay
            /\ DropFrame(t)
            /\ Goto(t, "raised")
       ELSE /\ retry_count' = [u \in Tasks |-> retry_count[t] + 1]
            /\ \E jitter \in Jitters(delay(BASE_RETRY_DELAY, retry_count[t] + 1)) :
                  total_delay' = [total_delay EXCEPT ![t] =
                      delay(BASE_RETRY_DELAY, retry_count[t] + 1) + jitter]
            /\ UNCHANGED << raised, content, exc >>
            /\ Goto(t, "w_sleep")
    /\ UNCHANGED << entry, recordedTime, frame, max_retries, failFirst, text,
                    invocations, ret, attemptRecs, recorded, replies, status,
                    metrics >>

\* except Exception as e: retry_count += 1; re-raise once the budget is
\* spent; otherwise delay = base_delay * (2 ** (retry_count - 1));
\* jitter = random.uniform(0, 0.1 * delay); total_delay = delay + jitter
wrapper_except(t) ==
    /\ pc[t] = "w_except"
    /\ CanRun(t)
    /\ IF retry_count[t] + 1 > max_retries[t]
       THEN /\ raised' = [raised EXCEPT ![t] = exc[t]]
            /\ total_delay' = total_delay
            /\ DropFrame(t)
            /\ Goto(t, "raised")
       ELSE /\ retry_count' = [retry_count EXCEPT ![t] = @ + 1]
            /\ \E jitter \in Jitters(delay(BASE_RETRY_DELAY, retry_count[t] + 1)) :
                  total_delay' = [total_delay EXCEPT ![t] =
                      delay(BASE_RETRY_DELAY, retry_count[t] + 1) + jitter]
            /\ UNCHANGED << raised, content, exc >>
            /\ Goto(t, "w_sleep")
    /\ UNCHANGED << entry, recordedTime, frame, max_retries, failFirst, text, invocations, ret,
                    attemptRecs, recorded, replies, status, metrics >>

\* await asyncio.sleep(total_delay): the name asyncio is looked up in the
\* module's globals; an unbound name raises NameError out of the handler.
\* From w_backoff the sleep completes and the loop goes round.
wrapper_sleep(t) ==
    /\ pc[t] \in {"w_sleep", "w_backoff"}
    /\ CanRun(t)
    /\ IF pc[t] = "w_backoff"
       THEN /\ UNCHANGED << raised, retry_count, content, exc >>
            /\ total_delay' = [total_delay EXCEPT ![t] = 0]
            /\ Goto(t, "w_loop")
       ELSE IF "asyncio" \in UtilsGlobals
       THEN /\ UNCHANGED << raised, retry_count, content, exc, total_delay >>
            /\ Goto(t, "w_backoff")
       ELSE /\ raised' = [raised EXCEPT ![t] = [kind |-> "NameError", at |-> 0]]
            /\ total_delay' = [total_delay EXCEPT ![t] = 0]
            /\ DropFrame(t)
            /\ Goto(t, "raised")
    /\ UNCHANGED << entry, recordedTime, frame, max_retries, failFirst, text, invocations, ret,
                    attemptRecs, recorded, replies, status, metrics >>

\* --------------------------------- openai_client.py: generate_response
\* had_error_arg with had_error=True forgotten in the except clauses
had_error_arg_default(failed) == FALSE

\* had_error argument of metrics.record_request: the default False on the
\* success path, had_error=True in both except clauses
had_error_arg(failed) == failed

\* reraised_kind with a bare `raise` in the generic clause as well
reraised_kind_bare(k) == k

\* except (APIError, RateLimitError, APIConnectionError): raise
\* except Exception: raise APIError(...)
reraised_kind(k) == IF k \in ClassifiedKinds THEN k ELSE "APIError"

\* response = client.chat.completions.create(..., timeout=60)
generate_response_create(t) ==
    /\ pc[t] = "g_create"
    /\ CanRun(t)
    /\ CreateCall(t, "g_strip", "g_create2", "g_except")
    /\ UNCHANGED << entry, total_delay, recordedTime, frame, max_retries, retry_count, failFirst, text,
                    invocations, ret, raised, attemptRecs, recorded, replies,
                    status, metrics >>

\* except TypeError: response = client.chat.completions.create(...)
generate_response_fallback(t) ==
    /\ pc[t] = "g_create2"
    /\ CanRun(t)
    /\ FallbackCall(t, "g_strip", "g_except")
    /\ UNCHANGED << entry, total_delay, recordedTime, frame, max_retries, retry_count, failFirst, text,
                    invocations, ret, raised, attemptRecs, recorded, replies,
                    status, metrics >>

\* reply = response.choices[0].message.content.strip();
\* metrics.record_request(processing_time); return reply
generate_response_reply(t) ==
    /\ pc[t] = "g_strip"
    /\ CanRun(t)
    /\ IF content[t] = NoneContent
       THEN /\ exc' = [exc EXCEPT ![t] = [kind |-> "Other", at |-> invocations[t]]]
            /\ frame' = frame
            /\ Goto(t, "g_except")
       ELSE /\ CallRecordRequest(t, had_error_arg(FALSE), "w_return")
            /\ exc' = exc
    /\ UNCHANGED << entry, total_delay, recordedTime, max_retries, retry_count, failFirst, text,
                    invocations, content, ret, raised, attemptRecs, recorded,
                    replies, status, metrics >>

\* generate_response_except without the metrics.record_request call
generate_response_except_unrecorded(t) ==
    /\ pc[t] = "g_except"
    /\ CanRun(t)
    /\ Goto(t, "g_raise")
    /\ UNCHANGED << entry, total_delay, recordedTime, frame, max_retries,
                    retry_count, failFirst, text, invocations, content, exc,
                    ret, raised, attemptRecs, recorded, replies, status,
                    metrics >>

\* both except clauses: metrics.record_request(processing_time,
\* had_error=True) ...
generate_response_except(t) ==
    /\ pc[t] = "g_except"
    /\ CanRun(t)
    /\ CallRecordRequest(t, had_error_arg(TRUE), "g_raise")
    /\ UNCHANGED << entry, total_delay, recordedTime, max_retries, retry_count, failFirst, text,
                    invocations, content, exc, ret, raised, attemptRecs,
                    recorded, replies, status, metrics >>

\* ... then `raise`, or `raise APIError(...)` in the generic clause
generate_response_raise(t) ==
    /\ pc[t] = "g_raise"
    /\ CanRun(t)
    /\ exc' = [exc EXCEPT ![t] = [kind |-> reraised_kind(@.kind), at |-> @.at]]
    /\ Goto(t, "w_except")
    /\ UNCHANGED << entry, total_delay, recordedTime, frame, max_retries, retry_count, failFirst, text,
                    invocations, content, ret, raised, attemptRecs, recorded,
                    replies, status, metrics >>

\* ------------------------------------------- utils.py: pure helpers
\* validate_input with `>=` in the length test
validate_input_strict(txt, max_length) ==
    IF txt.len = 0 \/ txt.type # "str" THEN FALSE
    ELSE IF txt.len >= max_length THEN FALSE
    ELSE TRUE

\* validate_input(text, max_length); a value is falsy when its len is 0
validate_input(txt, max_length) ==
    IF txt.len = 0 \/ txt.type # "str" THEN FALSE
    ELSE IF txt.len > max_length THEN FALSE
    ELSE TRUE

\* values a caller can hand to validate_input: strings, None, numbers and
\* lists, by Python type and len (None and 0 count as len 0), with
\* the lengths around the limit
ValidateArgs ==
    { [type |-> ty, len |-> n] :
        ty \in {"str", "list"},
        n \in {0, 1, MAX_LENGTH, MAX_LENGTH + 1} }
    \cup { [type |-> "NoneType", len |-> 0] }
    \cup { [type |-> "int", len |-> n] : n \in {0, 1} }

\* a call validate_input(text) with the default max_length
validate_input_call(t) ==
    /\ entry[t] = "validate_input"
    /\ pc[t] = "v_new"
    /\ CanRun(t)
    /\ ret' = [ret EXCEPT ![t] = << validate_input(text[t], MAX_LENGTH) >>]
    /\ Goto(t, "returned")
    /\ UNCHANGED << entry, total_delay, recordedTime, frame, max_retries,
                    retry_count, failFirst, text, invocations, content, exc,
                    raised, attemptRecs, recorded, replies, status, metrics >>

\* the localized messages, each a one-element sequence naming the message
Msg(id) == << id >>

\* format_error_message with the "TimeoutError" entry missing from the dict
format_error_message_no_timeout(error_type) ==
    CASE error_type = "RateLimitError" -> Msg("msg_rate_limit")
      [] error_type = "APIConnectionError" -> Msg("msg_connection")
      [] error_type = "APIError" -> Msg("msg_api")
      [] error_type = "ValidationError" -> Msg("msg_validation")
      [] OTHER -> Msg("msg_unknown")

\* format_error_message(error_type)
format_error_message(error_type) ==
    CASE error_type = "RateLimitError" -> Msg("msg_rate_limit")
      [] error_type = "APIConnectionError" -> Msg("msg_connection")
      [] error_type = "APIError" -> Msg("msg_api")
      [] error_type = "ValidationError" -> Msg("msg_validation")
      [] error_type = "TimeoutError" -> Msg("msg_timeout")
      [] OTHER -> Msg("msg_unknown")

\* names a caller can pass as error_type: the keys of error_messages and
\* class names that are not keys
ErrorTypeNames ==
    {"RateLimitError", "APIConnectionError", "APIError", "ValidationError",
     "TimeoutError", "UnknownError", "NameError", "Other"}

\* a call format_error_message(type(e).__name__) for a caught exception e
format_error_message_call(t) ==
    /\ entry[t] = "format_error_message"
    /\ pc[t] = "f_new"
    /\ CanRun(t)
    /\ \E error_type \in ErrorTypeNames :
          /\ exc' = [exc EXCEPT ![t] = [kind |-> error_type, at |-> 0]]
          /\ ret' = [ret EXCEPT ![t] = format_error_message(error_type)]
    /\ Goto(t, "returned")
    /\ UNCHANGED << entry, total_delay, recordedTime, frame, max_retries,
                    retry_count, failFirst, text, invocations, content,
                    raised, attemptRecs, recorded, replies, status, metrics >>

\* ------------------------------------------------- main.py: the webhook
\* texts the MessageHandler(filters.TEXT & ~filters.COMMAND) lets through:
\* non-empty strings, here of length max_length and max_length + 1
InboundTexts == { [type |-> "str", len |-> n] : n \in {MAX_LENGTH, MAX_LENGTH + 1} }

\* error_messages.get(error_type, ...) of handle_message's first except clause
main_error_message(error_type) ==
    CASE error_type = "RateLimitError" -> Msg("msg_rate_limit")
      [] error_type = "APIConnectionError" -> Msg("msg_connection")
      [] error_type = "APIError" -> Msg("msg_api")
      [] OTHER -> Msg("msg_generic")

\* main_retried without the isinstance test: every caught kind is retried
main_retried_any(kind) == TRUE

\* the exception kinds handle_message retries
main_retried(kind) == kind \in {"RateLimitError", "APIConnectionError"}

\* handle_message's reply with the caught exception's text put into it
main_failure_reply_leaking(e) ==
    << "msg_generic_change", e.kind, ToString(e.at) >>

\* the text handle_message replies with for the exception e it caught: the
\* first except clause looks type(e).__name__ up in error_messages, the
\* second sends a literal
main_failure_reply(e) ==
    IF e.kind \in ClassifiedKinds THEN main_error_message(e.kind)
    ELSE Msg("msg_generic_change")

\* wait_time = 2 * (retry_count)
wait_time(k) == Seconds(2 * k)

\* what the platform gets when decoding or processing raises inside
\* process_update: main.py's except clause returns Response(HTTPStatus.OK);
\* fastapi_bot.py has no try statement, the exception leaves the endpoint
\* and no Response is returned
HTTP_OK == "200 OK"
Unhandled == "unhandled exception"
NoStatus == "none"
status_on_exception(e) ==
    IF e = "main" THEN HTTP_OK ELSE Unhandled

\* req_json = await request.json()
process_update_json(t) ==
    /\ entry[t] \in {"main", "fastapi_bot"}
    /\ pc[t] = "p_new"
    /\ CanRun(t)
    /\ \/ /\ Goto(t, "p_dejson")
          /\ UNCHANGED << status, raised >>
       \/ /\ status' = [status EXCEPT ![t] = status_on_exception(entry[t])]
          /\ raised' = [raised EXCEPT ![t] =
                IF entry[t] = "main" THEN NoExc ELSE [kind |-> "JSONDecodeError", at |-> 0]]
          /\ Goto(t, "responded")
    /\ UNCHANGED << entry, total_delay, recordedTime, frame, max_retries, retry_count, failFirst, text,
                    invocations, content, exc, ret, attemptRecs,
                    recorded, replies, metrics >>

\* update = Update.de_json(...); await application.process_update(update)
process_update_dejson(t) ==
    /\ pc[t] = "p_dejson"
    /\ CanRun(t)
    /\ \/ /\ Goto(t, IF entry[t] = "main" THEN "h_start" ELSE "s_start")
          /\ UNCHANGED << status, raised >>
       \/ /\ status' = [status EXCEPT ![t] = status_on_exception(entry[t])]
          /\ raised' = [raised EXCEPT ![t] =
                IF entry[t] = "main" THEN NoExc ELSE [kind |-> "Other", at |-> 0]]
          /\ Goto(t, "responded")
    /\ UNCHANGED << entry, total_delay, recordedTime, frame, max_retries, retry_count, failFirst, text,
                    invocations, content, exc, ret, attemptRecs,
                    recorded, replies, metrics >>

\* return Response(status_code=HTTPStatus.OK), after the handler returned
\* or after its exception was logged
process_update_respond(t) ==
    /\ pc[t] \in {"p_handler_done", "p_handler_raised"}
    /\ entry[t] \in {"main", "fastapi_bot"}
    /\ CanRun(t)
    /\ status' = [status EXCEPT ![t] = HTTP_OK]
    /\ Goto(t, "responded")
    /\ UNCHANGED << entry, total_delay, recordedTime, frame, max_retries, retry_count, failFirst, text,
                    invocations, content, exc, ret, raised,
                    attemptRecs, recorded, replies, metrics >>

\* label at which a handler that returned (or raised) hands control back
AfterHandler(t, did_raise) ==
    IF entry[t] = "main_webhook" THEN (IF did_raise THEN "raised" ELSE "returned")
    ELSE (IF did_raise THEN "p_handler_raised" ELSE "p_handler_done")

\* ---------------------------------------------- main.py: handle_message
\* user_text = update.message.text;
\* await context.bot.send_chat_action(..., action="typing")
handle_message_typing(t) ==
    /\ pc[t] = "h_start"
    /\ CanRun(t)
    /\ Goto(t, "h_typing")
    /\ UNCHANGED << entry, total_delay, recordedTime, frame, max_retries, retry_count, failFirst, text,
                    invocations, content, exc, ret, raised,
                    attemptRecs, recorded, replies, status, metrics >>

\* the chat action call completes (max_retries = 2; retry_count = 0) or
\* raises; it stands outside the try statement
handle_message_typed(t) ==
    /\ pc[t] = "h_typing"
    /\ CanRun(t)
    /\ \/ /\ max_retries' = [max_retries EXCEPT ![t] = HANDLER_MAX_RETRIES]
          /\ retry_count' = [retry_count EXCEPT ![t] = 0]
          /\ exc' = exc
          /\ Goto(t, "h_loop")
          /\ UNCHANGED << raised, content >>
       \/ /\ raised' = [raised EXCEPT ![t] = [kind |-> "TelegramError", at |-> 0]]
          /\ UNCHANGED << max_retries, retry_count, exc, content >>
          /\ Goto(t, AfterHandler(t, TRUE))
    /\ UNCHANGED << entry, total_delay, recordedTime, frame, failFirst, text, invocations, ret, attemptRecs,
                    recorded, replies, status, metrics >>

\* handle_message_loop with `retry_count = 0` moved into the loop body; the
\* count of attempts stops at the handler's bound
handle_message_loop_reset(t) ==
    /\ pc[t] = "h_loop"
    /\ CanRun(t)
    /\ invocations' = [invocations EXCEPT ![t] =
                          IF @ <= HANDLER_MAX_RETRIES THEN @ + 1 ELSE @]
    /\ exc' = [exc EXCEPT ![t] = NoExc]
    /\ retry_count' = [retry_count EXCEPT ![t] = 0]
    /\ content' = content
    /\ Goto(t, "h_create")
    /\ UNCHANGED << entry, total_delay, recordedTime, frame, max_retries,
                    failFirst, text, ret, raised, attemptRecs, recorded,
                    replies, status, metrics >>

\* while retry_count <= max_retries: try: ...
handle_message_loop(t) ==
    /\ pc[t] = "h_loop"
    /\ CanRun(t)
    /\ IF retry_count[t] <= max_retries[t]
       THEN /\ invocations' = [invocations EXCEPT ![t] = @ + 1]
            /\ exc' = [exc EXCEPT ![t] = NoExc]
            /\ UNCHANGED << retry_count, content >>
            /\ Goto(t, "h_create")
       ELSE /\ invocations' = invocations
            /\ DropFrame(t)
            /\ Goto(t, AfterHandler(t, FALSE))
    /\ UNCHANGED << entry, total_delay, recordedTime, frame, max_retries, failFirst, text, ret, raised,
                    attemptRecs, recorded, replies, status, metrics >>

\* response = openai_client.chat.completions.create(..., timeout=60)
handle_message_create(t) ==
    /\ pc[t] = "h_create"
    /\ CanRun(t)
    /\ CreateCall(t, "h_strip", "h_create2", "h_except")
    /\ UNCHANGED << entry, total_delay, recordedTime, frame, max_retries, retry_count, failFirst, text,
                    invocations, ret, raised, attemptRecs, recorded, replies,
                    status, metrics >>

\* except TypeError: response = openai_client.chat.completions.create(...)
handle_message_fallback(t) ==
    /\ pc[t] = "h_create2"
    /\ CanRun(t)
    /\ FallbackCall(t, "h_strip", "h_except")
    /\ UNCHANGED << entry, total_delay, recordedTime, frame, max_retries, retry_count, failFirst, text,
                    invocations, ret, raised, attemptRecs, recorded, replies,
                    status, metrics >>

\* reply = response.choices[0].message.content.strip();
\* await update.message.reply_text(reply)
handle_message_reply(t) ==
    /\ pc[t] = "h_strip"
    /\ CanRun(t)
    /\ IF content[t] = NoneContent
       THEN /\ exc' = [exc EXCEPT ![t] = [kind |-> "Other", at |-> invocations[t]]]
            /\ Goto(t, "h_except")
       ELSE /\ exc' = exc
            /\ Goto(t, "h_reply")
    /\ UNCHANGED << entry, total_delay, recordedTime, frame, max_retries, retry_count, failFirst, text,
                    invocations, content, ret, raised, attemptRecs,
                    recorded, replies, status, metrics >>

\* the reply is delivered; return
handle_message_replied(t) ==
    /\ pc[t] = "h_reply"
    /\ CanRun(t)
    /\ replies' = [replies EXCEPT ![t] = Append(@, strip(content[t]))]
    /\ DropFrame(t)
    /\ Goto(t, AfterHandler(t, FALSE))
    /\ UNCHANGED << entry, total_delay, recordedTime, frame, max_retries, failFirst, text, invocations, ret,
                    raised, attemptRecs, recorded, status, metrics >>

\* except (APIError, RateLimitError, APIConnectionError): retry with
\* time.sleep(2 * retry_count) or reply with the kind's message;
\* except Exception: reply with the generic message
handle_message_except(t) ==
    /\ pc[t] = "h_except"
    /\ CanRun(t)
    /\ IF /\ exc[t].kind \in ClassifiedKinds
          /\ main_retried(exc[t].kind)
          /\ retry_count[t] < max_retries[t]
       THEN /\ retry_count' = [retry_count EXCEPT ![t] = @ + 1]
            /\ total_delay' = [total_delay EXCEPT ![t] =
                                  wait_time(retry_count[t] + 1)]
            /\ Goto(t, "h_sleep")
       ELSE /\ UNCHANGED << retry_count, total_delay >>
            /\ Goto(t, "h_reply_err")
    /\ UNCHANGED << entry, recordedTime, frame, max_retries, failFirst, text, invocations,
                    content, exc, ret, raised, attemptRecs, recorded, replies,
                    status, metrics >>

\* time.sleep(wait_time) returns; continue
handle_message_wake(t) ==
    /\ pc[t] = "h_sleep"
    /\ CanRun(t)
    /\ total_delay' = [total_delay EXCEPT ![t] = 0]
    /\ Goto(t, "h_loop")
    /\ UNCHANGED << entry, recordedTime, frame, max_retries, retry_count, failFirst, text,
                    invocations, content, exc, ret, raised,
                    attemptRecs, recorded, replies, status, metrics >>

\* the error reply is delivered; return
handle_message_replied_err(t) ==
    /\ pc[t] = "h_reply_err"
    /\ CanRun(t)
    /\ replies' = [replies EXCEPT ![t] = Append(@, main_failure_reply(exc[t]))]
    /\ DropFrame(t)
    /\ Goto(t, AfterHandler(t, FALSE))
    /\ UNCHANGED << entry, total_delay, recordedTime, frame, max_retries, failFirst, text, invocations, ret,
                    raised, attemptRecs, recorded, status, metrics >>

\* --------------------- fastapi_bot.py / main_webhook.py: handle_message
\* main_webhook.py: run_webhook hands the update to the handler
run_webhook_dispatch(t) ==
    /\ entry[t] = "main_webhook"
    /\ pc[t] = "p_new"
    /\ CanRun(t)
    /\ Goto(t, "s_start")
    /\ UNCHANGED << entry, total_delay, recordedTime, frame, max_retries, retry_count, failFirst, text,
                    invocations, content, exc, ret, raised,
                    attemptRecs, recorded, replies, status, metrics >>

\* response = openai_client.chat.completions.create(...)
simple_handle_message_create(t) ==
    /\ pc[t] = "s_start"
    /\ CanRun(t)
    /\ invocations' = [invocations EXCEPT ![t] = @ + 1]
    /\ FallbackCall(t, "s_strip", "s_reply_err")
    /\ UNCHANGED << entry, total_delay, recordedTime, frame, max_retries, retry_count, failFirst, text, ret,
                    raised, attemptRecs, recorded, replies, status, metrics >>

\* reply = response.choices[0].message.content.strip();
\* await update.message.reply_text(reply)
simple_handle_message_reply(t) ==
    /\ pc[t] = "s_strip"
    /\ CanRun(t)
    /\ IF content[t] = NoneContent
       THEN /\ exc' = [exc EXCEPT ![t] = [kind |-> "Other", at |-> invocations[t]]]
            /\ Goto(t, "s_reply_err")
       ELSE /\ exc' = exc
            /\ Goto(t, "s_reply")
    /\ UNCHANGED << entry, total_delay, recordedTime, frame, max_retries, retry_count, failFirst, text,
                    invocations, content, ret, raised, attemptRecs,
                    recorded, replies, status, metrics >>

\* except Exception as e: the literal the handler replies with
simple_failure_reply(e) == Msg("msg_generic")

\* the reply, or the except clause's message, is delivered
simple_handle_message_replied(t) ==
    /\ pc[t] \in {"s_reply", "s_reply_err"}
    /\ CanRun(t)
    /\ replies' = [replies EXCEPT ![t] = Append(@,
            IF pc[t] = "s_reply" THEN strip(content[t])
            ELSE simple_failure_reply(exc[t]))]
    /\ DropFrame(t)
    /\ Goto(t, AfterHandler(t, FALSE))
    /\ UNCHANGED << entry, total_delay, recordedTime, frame, max_retries, failFirst, text, invocations, ret,
                    raised, attemptRecs, recorded, status, metrics >>

\* ------------------------------------------------------- specification
TypeOK ==
    /\ running \in {{}} \cup { {t} : t \in Tasks }
    /\ \A t \in Tasks : retry_count[t] \in 0..(MaxRetriesBound + 1)
    /\ metrics.request_count \in Nat

InitCommon ==
    /\ running = {}
    /\ retry_count = [t \in Tasks |-> 0]
    /\ invocations = [t \in Tasks |-> 0]
    /\ content = [t \in Tasks |-> <<>>]
    /\ exc = [t \in Tasks |-> NoExc]
    /\ frame = [t \in Tasks |-> NoFrame]
    /\ ret = [t \in Tasks |-> <<>>]
    /\ raised = [t \in Tasks |-> NoExc]
    /\ attemptRecs = [t \in Tasks |-> <<>>]
    /\ recorded = [t \in Tasks |-> [n |-> 0, errors |-> 0]]
    /\ replies = [t \in Tasks |-> <<>>]
    /\ status = [t \in Tasks |-> NoStatus]
    /\ metrics = MetricsInit
    /\ total_delay = [t \in Tasks |-> 0]
    /\ recordedTime = 0

\* tasks that each call the with_retry-wrapped generate_response once
InitRetry ==
    /\ InitCommon
    /\ entry = [t \in Tasks |-> "generate_response"]
    /\ pc = [t \in Tasks |-> "w_new"]
    /\ max_retries \in [Tasks -> RetryBudgets]
    /\ failFirst \in [Tasks -> FailPlans(MaxRetriesBound)]
    /\ \A t \in Tasks : failFirst[t] \in FailPlans(max_retries[t])
    /\ text = [t \in Tasks |-> [type |-> "str", len |-> 1]]

TaskNextRetry(t) ==
        \/ wrapper_enter(t)
        \/ wrapper_loop(t)
        \/ wrapper_return(t)
        \/ wrapper_except(t)
        \/ wrapper_sleep(t)
        \/ generate_response_create(t)
        \/ generate_response_fallback(t)
        \/ generate_response_reply(t)
        \/ generate_response_except(t)
        \/ generate_response_raise(t)
        \/ record_request_count(t)
        \/ record_request_count_store(t)
        \/ record_request_time(t)
        \/ record_request_time_store(t)
        \/ record_request_error(t)
        \/ record_request_error_store(t)

NextRetry == \E t \in Tasks : TaskNextRetry(t)

SpecRetry == InitRetry /\ [][NextRetry]_vars

\* inbound webhook updates, each carrying one text message
InitBot ==
    /\ InitCommon
    /\ entry \in [Tasks -> {"main", "fastapi_bot", "main_webhook"}]
    /\ pc = [t \in Tasks |-> "p_new"]
    /\ max_retries = [t \in Tasks |-> 0]
    /\ failFirst = [t \in Tasks |-> 0]
    /\ text \in [Tasks -> InboundTexts]

TaskNextBot(t) ==
        \/ process_update_json(t)
        \/ process_update_dejson(t)
        \/ process_update_respond(t)
        \/ handle_message_typing(t)
        \/ handle_message_typed(t)
        \/ handle_message_loop(t)
        \/ handle_message_create(t)
        \/ handle_message_fallback(t)
        \/ handle_message_reply(t)
        \/ handle_message_replied(t)
        \/ handle_message_except(t)
        \/ handle_message_wake(t)
        \/ handle_message_replied_err(t)
        \/ run_webhook_dispatch(t)
        \/ simple_handle_message_create(t)
        \/ simple_handle_message_reply(t)
        \/ simple_handle_message_replied(t)

NextBot == \E t \in Tasks : TaskNextBot(t)

SpecBot == InitBot /\ [][NextBot]_vars

\* the tasks still to run when two coroutines are in flight; the tasks
\* between them are main.py updates whose body was not JSON and that
\* process_update has already answered
InFlight == {1, NTasks}

\* calls of the wrapped generate_response and main.py webhook updates side
\* by side, under the scheduling the event loop provides: a coroutine that
\* can run is run, every upstream call, chat call and sleep comes back
InitLive ==
    /\ running = {}
    /\ retry_count = [t \in Tasks |-> 0]
    /\ invocations = [t \in Tasks |-> 0]
    /\ content = [t \in Tasks |-> <<>>]
    /\ exc = [t \in Tasks |-> NoExc]
    /\ frame = [t \in Tasks |-> NoFrame]
    /\ ret = [t \in Tasks |-> <<>>]
    /\ raised = [t \in Tasks |-> NoExc]
    /\ attemptRecs = [t \in Tasks |-> <<>>]
    /\ recorded = [t \in Tasks |-> [n |-> 0, errors |-> 0]]
    /\ replies = [t \in Tasks |-> <<>>]
    /\ metrics = MetricsInit
    /\ total_delay = [t \in Tasks |-> 0]
    /\ recordedTime = 0
    /\ entry \in [Tasks -> {"generate_response", "main"}]
    /\ \A t \in Tasks \ InFlight : entry[t] = "main"
    /\ pc = [t \in Tasks |-> IF t \notin InFlight THEN "responded"
                             ELSE IF entry[t] = "main" THEN "p_new" ELSE "w_new"]
    /\ status = [t \in Tasks |-> IF t \in InFlight THEN NoStatus ELSE HTTP_OK]
    /\ max_retries \in [Tasks -> RetryBudgets]
    /\ failFirst \in [Tasks -> FailPlans(MaxRetriesBound)]
    /\ \A t \in Tasks :
          IF entry[t] = "main"
          THEN max_retries[t] = 0 /\ failFirst[t] = 0
          ELSE failFirst[t] \in FailPlans(max_retries[t])
    /\ text = [t \in Tasks |-> [type |-> "str", len |-> MAX_LENGTH]]

TaskNextMain(t) ==
        \/ process_update_json(t)
        \/ process_update_dejson(t)
        \/ process_update_respond(t)
        \/ handle_message_typing(t)
        \/ handle_message_typed(t)
        \/ handle_message_loop(t)
        \/ handle_message_create(t)
        \/ handle_message_fallback(t)
        \/ handle_message_reply(t)
        \/ handle_message_replied(t)
        \/ handle_message_except(t)
        \/ handle_message_wake(t)
        \/ handle_message_replied_err(t)

NextLive == \E t \in Tasks : TaskNextRetry(t) \/ TaskNextMain(t)

FairLive == \A t \in Tasks : WF_vars(TaskNextRetry(t) \/ TaskNextMain(t))

SpecLive == InitLive /\ [][NextLive]_vars /\ FairLive

\* tasks that each make one direct call of a utils.py function:
\* validate_input, format_error_message, metrics.record_request or
\* metrics.get_metrics
UtilsCalls == {"validate_input", "format_error_message", "record_request",
               "get_metrics"}

StartOf(e) ==
    CASE e = "validate_input" -> "v_new"
      [] e = "format_error_message" -> "f_new"
      [] e = "record_request" -> "r_new"
      [] e = "get_metrics" -> "gm_new"

InitCalls ==
    /\ InitCommon
    /\ entry \in [Tasks -> UtilsCalls]
    /\ pc = [t \in Tasks |-> StartOf(entry[t])]
    /\ max_retries = [t \in Tasks |-> 0]
    /\ failFirst = [t \in Tasks |-> 0]
    /\ text \in [Tasks -> ValidateArgs]
    /\ \A t \in Tasks :
          entry[t] # "validate_input" => text[t] = [type |-> "str", len |-> 1]

TaskNextCalls(t) ==
        \/ validate_input_call(t)
        \/ format_error_message_call(t)
        \/ get_metrics_call(t)
        \/ record_request_call(t)
        \/ record_request_count(t)
        \/ record_request_count_store(t)
        \/ record_request_time(t)
        \/ record_request_time_store(t)
        \/ record_request_error(t)
        \/ record_request_error_store(t)

NextCalls == \E t \in Tasks : TaskNextCalls(t)

SpecCalls == InitCalls /\ [][NextCalls]_vars

\* ====================================================== properties
Done(t) == pc[t] \in {"returned", "raised"}

RECURSIVE SumOver(_, _)
SumOver(f, S) ==
    IF S = {} THEN 0
    ELSE LET x == CHOOSE y \in S : TRUE IN f[x] + SumOver(f, S \ {x})

\* C1: when the wrapped operation fails on every invocation, a finished
\* with_retry call has invoked it exactly max_retries + 1 times and has
\* propagated the failure raised by the last invocation.
C1_ExhaustionPropagatesLastFailure ==
    \A t \in Tasks :
        (Done(t) /\ failFirst[t] > max_retries[t]) =>
            /\ pc[t] = "raised"
            /\ invocations[t] = max_retries[t] + 1
            /\ raised[t].at = invocations[t]

\* C2: when the wrapped operation fails on its first N <= max_retries
\* invocations and succeeds on the next, a finished with_retry call has
\* returned that success value after exactly N + 1 invocations.
C2_SuccessAfterNFailures ==
    \A t \in Tasks :
        (Done(t) /\ failFirst[t] <= max_retries[t]) =>
            /\ pc[t] = "returned"
            /\ invocations[t] = failFirst[t] + 1
            /\ ret[t] \in { strip(c) : c \in Contents }

\* C3: in every reachable state of a with_retry invocation the wrapped
\* operation has been invoked at most max_retries + 1 times.
C3_AttemptsBounded ==
    \A t \in Tasks : invocations[t] <= max_retries[t] + 1

\* C3 witness: an invocation that used its whole budget and raised
C3_Witness ==
    \E t \in Tasks :
        /\ pc[t] = "raised"
        /\ invocations[t] = max_retries[t] + 1
        /\ raised[t].at = invocations[t]

\* C6: whatever the interleaving of the tasks, the tracker's request_count
\* equals the number of record_request calls made and its error_count the
\* number of those made with had_error = True: no update is lost.
C6_NoLostUpdate ==
    /\ metrics.request_count = SumOver([t \in Tasks |-> recorded[t].n], Tasks)
    /\ metrics.error_count = SumOver([t \in Tasks |-> recorded[t].errors], Tasks)

\* C6 witness: every task has recorded, one of them an error, and the
\* tracker counts all of them
C6_Witness ==
    /\ \A t \in Tasks : recorded[t].n >= 1
    /\ \E t \in Tasks : recorded[t].errors >= 1
    /\ metrics.request_count >= NTasks

\* C7: an attempt of generate_response that has handed its outcome to the
\* caller has made exactly one metrics record, had_error = False when it
\* returned and had_error = True when it raised; no attempt records twice.
C7_OneRecordPerAttempt ==
    \A t \in Tasks :
        /\ Len(attemptRecs[t]) <= 1
        /\ pc[t] = "w_return" => attemptRecs[t] = << FALSE >>
        /\ pc[t] = "w_except" => attemptRecs[t] = << TRUE >>

\* C7 witness: one attempt has just raised to the wrapper with its error
\* recorded, another call returned after a single successful record
C7_Witness ==
    \E t, u \in Tasks :
        /\ pc[t] = "w_except" /\ attemptRecs[t] = << TRUE >>
        /\ pc[u] = "returned" /\ attemptRecs[u] = << FALSE >>

\* the task's handle_message has returned or raised
HandlerFinished(t) ==
    pc[t] \in {"p_handler_done", "p_handler_raised", "returned", "raised"}

\* C4: for an inbound text that validate_input rejects (empty, not a string,
\* or longer than the maximum length), the handler never makes an upstream
\* attempt and the reply it sends is the ValidationError message.
C4_InvalidTextNeverReachesUpstream ==
    \A t \in Tasks :
        ~validate_input(text[t], MAX_LENGTH) =>
            /\ invocations[t] = 0
            /\ HandlerFinished(t) =>
                    replies[t] = << format_error_message("ValidationError") >>

\* C5: handle_message never sends a second reply, and when it has finished
\* it has sent exactly one.
C5_ExactlyOneReply ==
    \A t \in Tasks :
        /\ Len(replies[t]) <= 1
        /\ HandlerFinished(t) => Len(replies[t]) = 1

\* the labels at which a task is in the wait between two attempts
BackoffLabels == {"w_backoff", "h_sleep"}

\* C8: while one task is in its backoff wait, every other task that has not
\* finished can take a step.
C8_BackoffSuspendsOnlyCaller ==
    \A t, u \in Tasks :
        (t # u /\ pc[t] \in BackoffLabels /\ pc[u] \notin Terminal) =>
            ENABLED TaskNextBot(u)

\* C9: whenever process_update has answered the platform, the answer is
\* HTTP 200 OK.
C9_AlwaysAcknowledged ==
    \A t \in Tasks : pc[t] = "responded" => status[t] = HTTP_OK

\* C10: when the reply of a first upstream attempt that succeeded with
\* text r is delivered, the replies sent for the message are exactly << r >>
\* and exactly one metrics record, with had_error = False, has been made.
C10_FirstAttemptSuccess ==
    [][ \A t \in Tasks :
            ( /\ pc[t] \in {"h_reply", "s_reply"}
              /\ invocations[t] = 1
              /\ validate_input(text[t], MAX_LENGTH)
              /\ pc'[t] # pc[t] ) =>
                /\ replies'[t] = << strip(content[t]) >>
                /\ recorded'[t] = [n |-> 1, errors |-> 0]
                /\ metrics'.request_count >= 1 ]_vars

\* C11: whatever the chat-action ("typing") call did, a handle_message of
\* main.py that has ended has made an upstream attempt and sent its one
\* reply; the failure of that call never leaves the handler as an exception.
C11_TypingFailureDoesNotAbort ==
    \A t \in Tasks :
        (entry[t] = "main" /\ pc[t] \in {"p_handler_done", "p_handler_raised"}) =>
            /\ raised[t].kind # "TelegramError"
            /\ invocations[t] >= 1
            /\ Len(replies[t]) = 1

\* the labels at which a handler is about to send a failure reply
FailureReplyLabels == {"h_reply_err", "s_reply_err"}

\* the constant localized messages of main.py, fastapi_bot.py,
\* main_webhook.py and format_error_message
LocalizedMessages ==
    { Msg(id) : id \in {"msg_rate_limit", "msg_connection", "msg_api",
                        "msg_generic", "msg_generic_change",
                        "msg_validation", "msg_timeout", "msg_unknown"} }

\* the reply each handler gives as a function of the failure's kind alone
ReplyOfKind(label, kind) ==
    IF label = "s_reply_err" THEN Msg("msg_generic")
    ELSE CASE kind = "RateLimitError" -> Msg("msg_rate_limit")
           [] kind = "APIConnectionError" -> Msg("msg_connection")
           [] kind = "APIError" -> Msg("msg_api")
           [] OTHER -> Msg("msg_generic_change")

\* C12: every reply a handler sends on a failure path is one of the constant
\* localized messages and is determined by the failure's kind alone: two
\* failures of one kind that differ in what else the exception carries get
\* the same reply, and nothing of the exception appears in it.
C12_FailureReplyIsConstant ==
    [][ \A t \in Tasks :
            (pc[t] \in FailureReplyLabels /\ pc'[t] # pc[t]) =>
                /\ Len(replies'[t]) = Len(replies[t]) + 1
                /\ replies'[t][Len(replies'[t])] \in LocalizedMessages
                /\ replies'[t][Len(replies'[t])] = ReplyOfKind(pc[t], exc[t].kind)
      ]_vars

\* C12 witness: two main.py handlers answered failures of one kind raised by
\* different attempts, and their replies are the same message
C12_Witness ==
    \E t, u \in Tasks :
        /\ entry[t] = "main" /\ entry[u] = "main"
        /\ invocations[t] = 1 /\ invocations[u] = 2
        /\ replies[t] = << Msg("msg_api") >>
        /\ replies[u] = replies[t]

\* the record_request calls completed so far, over all tasks
CallsMade == SumOver([t \in Tasks |-> recorded[t].n], Tasks)
ErrorCallsMade == SumOver([t \in Tasks |-> recorded[t].errors], Tasks)

\* the fraction q equals a / b
EqualsRatio(q, a, b) == q.den # 0 /\ b # 0 /\ q.num * b = a * q.den

\* C13: whenever the event loop is free to run get_metrics (no
\* record_request call is under way), it reports total_requests equal to the
\* number of record_request calls, avg_processing_time equal to the sum of
\* the recorded times over max(1, total_requests) and error_rate equal to the
\* number of had_error calls over max(1, total_requests); no division is by
\* zero, and with no request recorded both derived values are 0.
C13_GetMetricsReportsTotals ==
    running = {} =>
        LET g == get_metrics(metrics)
            n == IF CallsMade >= 1 THEN CallsMade ELSE 1
        IN  /\ g.total_requests = CallsMade
            /\ EqualsRatio(g.avg_processing_time, recordedTime, n)
            /\ EqualsRatio(g.error_rate, ErrorCallsMade, n)
            /\ CallsMade = 0 =>
                  g.avg_processing_time.num = 0 /\ g.error_rate.num = 0

\* C13 witness: get_metrics can run after two calls, one with had_error,
\* whose times sum to a positive value; the error rate it reports is 1/2
C13_Witness ==
    /\ running = {}
    /\ CallsMade = 2 /\ ErrorCallsMade = 1 /\ recordedTime >= 1
    /\ EqualsRatio(get_metrics(metrics).error_rate, 1, 2)

\* C14: no step lowers request_count, error_count or
\* total_processing_time, and each record_request call raises request_count
\* by exactly 1, adds its (non-negative) processing time to
\* total_processing_time, and raises error_count by 1 when had_error and
\* leaves it alone otherwise.
C14_CountersMonotone ==
    [][ /\ metrics'.request_count >= metrics.request_count
        /\ metrics'.error_count >= metrics.error_count
        /\ metrics'.total_processing_time >= metrics.total_processing_time
        /\ \A t \in Tasks :
              /\ (pc[t] = "m_count_store" /\ pc'[t] = "m_time") =>
                    metrics'.request_count = metrics.request_count + 1
              /\ (pc[t] = "m_time_store" /\ pc'[t] = "m_error") =>
                    /\ frame[t].processing_time >= 0
                    /\ metrics'.total_processing_time =
                          metrics.total_processing_time + frame[t].processing_time
              /\ (pc[t] = "m_error" /\ pc'[t] # pc[t]) =>
                    /\ metrics'.error_count = metrics.error_count
                    /\ frame[t].had_error <=> pc'[t] = "m_error_store"
              /\ (pc[t] = "m_error_store" /\ pc'[t] # pc[t]) =>
                    metrics'.error_count = metrics.error_count + 1
      ]_vars

\* C14 witness: a call with had_error = False has returned leaving
\* error_count alone while another call, with had_error = True, raised it,
\* and a positive processing time was added
C14_Witness ==
    /\ metrics.request_count = 2
    /\ metrics.error_count = 1
    /\ metrics.total_processing_time >= 1
    /\ \E t \in Tasks : pc[t] = "returned" /\ recorded[t] = [n |-> 1, errors |-> 0]

\* C15: an attempt of generate_response in which something failed never
\* returns: it raises to the caller, a RateLimitError, APIConnectionError or
\* APIError as itself and anything else as an APIError, so what the caller
\* catches is always one of these three kinds.
C15_FailureAlwaysReraisedClassified ==
    [][ \A t \in Tasks :
            /\ pc'[t] = "w_return" => exc'[t] = NoExc /\ content'[t] # NoneContent
            /\ pc'[t] = "w_except" => exc'[t].kind \in ClassifiedKinds
            /\ (pc[t] = "g_raise" /\ pc'[t] # pc[t]) =>
                  /\ pc'[t] = "w_except"
                  /\ exc[t].kind \in ClassifiedKinds => exc'[t].kind = exc[t].kind
                  /\ exc[t].kind \notin ClassifiedKinds => exc'[t].kind = "APIError"
                  /\ exc'[t].at = exc[t].at
      ]_vars

\* C15 witness: one attempt got a message without content, which fails in
\* .strip(), and reached the caller as an APIError; the RateLimitError of
\* another call's attempt reached its caller unchanged and was propagated
C15_Witness ==
    \E t, u \in Tasks :
        /\ pc[t] = "w_except" /\ content[t] = NoneContent
        /\ exc[t].kind = "APIError"
        /\ pc[u] = "raised" /\ raised[u].kind = "RateLimitError"

\* C16: whatever the kind of the failure, a with_retry call whose first
\* invocation failed while retries remained does not finish on that single
\* invocation: the operation is invoked again.
C16_RetriesEveryKind ==
    \A t \in Tasks :
        (Done(t) /\ failFirst[t] >= 1 /\ max_retries[t] >= 1) =>
            invocations[t] >= 2

\* C17: the step taken after the k-th failed attempt, when retries remain,
\* is a wait (never an exit from the wrapper) of a delay d with
\* base_delay * 2^(k-1) <= d < base_delay * 2^(k-1) * 1.1; since
\* 1.1 * 2^(k-1) <= 2^k the delays of successive retries then never decrease.
C17_BackoffDelayBounds ==
    [][ \A t \in Tasks :
            (pc[t] = "w_sleep" /\ pc'[t] # pc[t]) =>
                /\ pc'[t] = "w_backoff"
                /\ total_delay'[t] >= delay(BASE_RETRY_DELAY, retry_count[t])
                /\ total_delay'[t] * 10 < delay(BASE_RETRY_DELAY, retry_count[t]) * 11
      ]_vars

\* C18: in main.py's handle_message a failed attempt is followed by a retry
\* only when the failure is a RateLimitError or an APIConnectionError and
\* fewer than 2 retries have been made; retry i is preceded by a wait of
\* 2 * i seconds; there are never more than 3 upstream attempts; any other
\* failure, and a retryable one once the retries are used up, is answered
\* at once with the message of that failure's kind.
C18_HandlerRetryPolicy ==
    [][ \A t \in Tasks :
            /\ entry[t] = "main" => invocations'[t] <= HANDLER_MAX_RETRIES + 1
            /\ (pc[t] = "h_except" /\ pc'[t] # pc[t]) =>
                  IF /\ exc[t].kind \in {"RateLimitError", "APIConnectionError"}
                     /\ retry_count[t] < 2
                  THEN /\ pc'[t] = "h_sleep"
                       /\ retry_count'[t] = retry_count[t] + 1
                       /\ total_delay'[t] = Seconds(2 * retry_count'[t])
                       /\ replies'[t] = replies[t]
                  ELSE /\ pc'[t] = "h_reply_err"
                       /\ exc'[t] = exc[t]
                       /\ invocations'[t] = invocations[t]
            /\ (pc[t] = "h_reply_err" /\ pc'[t] # pc[t]) =>
                  /\ replies'[t] = << ReplyOfKind("h_reply_err", exc[t].kind) >>
                  /\ invocations'[t] = exc[t].at
                  /\ pc'[t] \notin {"h_loop", "h_create", "h_sleep"}
      ]_vars

\* C18 witness: one handler used both retries and answered the third
\* rate-limit failure with the rate-limit message; another answered an
\* APIError after its single attempt
C18_Witness ==
    \E t, u \in Tasks :
        /\ entry[t] = "main" /\ invocations[t] = 3
        /\ replies[t] = << Msg("msg_rate_limit") >>
        /\ entry[u] = "main" /\ invocations[u] = 1
        /\ replies[u] = << Msg("msg_api") >>

\* C19: under the event loop's scheduling every call of the with_retry
\* wrapper ends, returned or raised, and every run of main.py's
\* handle_message that has entered its retry loop reaches a return.
C19_Terminates ==
    \A t \in Tasks :
        /\ (pc[t] = "w_new") ~> Done(t)
        /\ (pc[t] = "h_loop") ~> (pc[t] = "p_handler_done")

\* C19 witness: a wrapper call has ended and a handler that went through
\* both of its retries has returned
C19_Witness ==
    \E t, u \in Tasks :
        /\ entry[t] = "generate_response" /\ Done(t) /\ invocations[t] >= 1
        /\ pc[u] = "p_handler_done" /\ invocations[u] = HANDLER_MAX_RETRIES + 1

\* C20: the with_retry wrapper never finds its loop condition false and
\* never raises RuntimeError: a call that has ended has either returned the
\* operation's value or re-raised the failure of its last invocation.
C20_NoLoopExit ==
    \A t \in Tasks :
        /\ raised[t].kind # "RuntimeError"
        /\ pc[t] = "w_loop" => retry_count[t] <= max_retries[t]
        /\ Done(t) =>
              \/ pc[t] = "returned" /\ ret[t] \in { strip(c) : c \in Contents }
              \/ /\ pc[t] = "raised"
                 /\ raised[t].kind \in ClassifiedKinds
                 /\ raised[t].at = invocations[t]

\* what belongs to one invocation: its position, its counters, its budget
\* and its result
Own(t) == << pc[t], retry_count[t], invocations[t], max_retries[t],
             total_delay[t], ret[t], raised[t] >>

\* C21: a step of one task leaves every other task's position, attempt
\* counter, attempt count, budget and result as they were; every invocation
\* makes at most max_retries + 1 attempts; and two finished with_retry calls
\* whose operations behave alike and whose budgets are equal ended the same
\* way after the same number of attempts, whatever ran in between.
C21_InvocationsIndependent ==
    [][ /\ \A t, u \in Tasks :
              (t # u /\ pc'[t] # pc[t]) => Own(u)' = Own(u)
        /\ \A t \in Tasks :
              (entry[t] \in {"generate_response", "main"} /\ pc[t] # "p_new") =>
                  invocations'[t] <= max_retries'[t] + 1
        /\ \A t, u \in Tasks :
              ( /\ entry[t] = "generate_response" /\ entry[u] = "generate_response"
                /\ Done(t)' /\ Done(u)'
                /\ max_retries[t] = max_retries[u]
                /\ failFirst[t] = failFirst[u] ) =>
                  /\ pc'[t] = pc'[u]
                  /\ invocations'[t] = invocations'[u]
      ]_vars

\* C21 witness: a handle_message that has retried is suspended in its reply
\* with its counter standing, and a with_retry call has run to its end
\* within its budget beside it
C21_Witness ==
    \E t, u \in Tasks :
        /\ entry[t] = "main" /\ pc[t] = "h_reply" /\ retry_count[t] >= 1
        /\ entry[u] = "generate_response" /\ Done(u)
        /\ invocations[u] >= 1 /\ invocations[u] <= max_retries[u] + 1

\* C22: a finished call validate_input(text) has returned (it never raises),
\* True exactly when text is a string of length 1..max_length and False for
\* every other argument: the empty string, None, a non-string, a string of
\* max_length + 1 characters.
C22_ValidateInputExact ==
    \A t \in Tasks :
        (entry[t] = "validate_input" /\ pc[t] # "v_new") =>
            /\ pc[t] = "returned"
            /\ raised[t] = NoExc
            /\ ret[t] = << /\ text[t].type = "str"
                           /\ text[t].len >= 1
                           /\ text[t].len <= MAX_LENGTH >>

\* C22 witness: a text of exactly max_length characters was accepted and one
\* of max_length + 1 characters was rejected
C22_Witness ==
    \E t, u \in Tasks :
        /\ entry[t] = "validate_input" /\ entry[u] = "validate_input"
        /\ text[t] = [type |-> "str", len |-> MAX_LENGTH]
        /\ ret[t] = << TRUE >>
        /\ text[u] = [type |-> "str", len |-> MAX_LENGTH + 1]
        /\ ret[u] = << FALSE >>

\* the kinds format_error_message has an entry of their own for
OwnMessageKinds == {"RateLimitError", "APIConnectionError", "APIError",
                    "ValidationError", "TimeoutError"}

\* C23: a call format_error_message(kind) returns a message for every kind
\* name; two calls for different kinds among RateLimitError,
\* APIConnectionError, APIError, ValidationError and TimeoutError return
\* different messages, none of them the UnknownError message, and a call for
\* any other name returns the UnknownError message.
C23_FormatErrorMessageTotal ==
    \A t \in Tasks :
        (entry[t] = "format_error_message" /\ pc[t] # "f_new") =>
            /\ pc[t] = "returned"
            /\ ret[t] \in LocalizedMessages
            /\ exc[t].kind \notin OwnMessageKinds => ret[t] = Msg("msg_unknown")
            /\ exc[t].kind \in OwnMessageKinds => ret[t] # Msg("msg_unknown")
            /\ \A u \in Tasks :
                  ( /\ entry[u] = "format_error_message" /\ pc[u] = "returned"
                    /\ exc[t].kind \in OwnMessageKinds
                    /\ exc[u].kind \in OwnMessageKinds ) =>
                      (ret[t] = ret[u] <=> exc[t].kind = exc[u].kind)

\* C23 witness: a call for TimeoutError returned the timeout message and a
\* call for a name without an entry returned the UnknownError message
C23_Witness ==
    \E t, u \in Tasks :
        /\ entry[t] = "format_error_message" /\ pc[t] = "returned"
        /\ exc[t].kind = "TimeoutError" /\ ret[t] = Msg("msg_timeout")
        /\ entry[u] = "format_error_message" /\ pc[u] = "returned"
        /\ exc[u].kind = "NameError" /\ ret[u] = Msg("msg_unknown")

\* the attempts made by all calls, and those of them that failed: a call
\* that returned ended on its one successful attempt
AttemptsMade == SumOver(invocations, Tasks)
FailedAttempts(t) == invocations[t] - (IF pc[t] = "returned" THEN 1 ELSE 0)

\* C24: a finished call of the wrapped generate_response that made k
\* attempts has made k metrics records, as many of them with had_error as
\* attempts failed; between calls request_count is the number of attempts
\* made by all calls; and in every state error_count <= request_count and
\* the error_rate get_metrics would report lies between 0 and 1.
C24_MetricsCountAttempts ==
    /\ \A t \in Tasks :
          Done(t) =>
              /\ recorded[t].n = invocations[t]
              /\ recorded[t].errors = FailedAttempts(t)
    /\ running = {} =>
          /\ metrics.request_count = AttemptsMade
          /\ metrics.error_count =
                SumOver([t \in Tasks |-> FailedAttempts(t)], Tasks)
    /\ metrics.error_count <= metrics.request_count
    /\ LET q == get_metrics(metrics).error_rate
       IN  q.den >= 1 /\ q.num >= 0 /\ q.num <= q.den

\* C24 witness: every call has ended, one of them on a failed attempt, and
\* the tracker counts one request per attempt and one error per failure
C24_Witness ==
    /\ \A t \in Tasks : Done(t) /\ invocations[t] >= 1
    /\ \E t \in Tasks : pc[t] = "raised" /\ recorded[t].errors = invocations[t]
    /\ \E t \in Tasks : pc[t] = "returned" /\ recorded[t].errors = 0
    /\ metrics.request_count = AttemptsMade
    /\ metrics.error_count >= 1
    /\ metrics.error_count < metrics.request_count

\* C25: the step in which get_metrics returns its snapshot leaves
\* request_count, error_count, total_processing_time and start_time as they
\* were, whatever record_request calls of other tasks are under way or have
\* finished; and no step at all changes start_time.
C25_GetMetricsReadOnly ==
    [][ /\ \A t \in Tasks :
              (pc[t] = "gm_new" /\ pc'[t] # "gm_new") =>
                  /\ metrics'.request_count = metrics.request_count
                  /\ metrics'.error_count = metrics.error_count
                  /\ metrics'.total_processing_time = metrics.total_processing_time
                  /\ metrics'.start_time = metrics.start_time
                  /\ pc'[t] = "returned"
                  /\ ret'[t] = << get_metrics(metrics) >>
        /\ metrics'.start_time = metrics.start_time ]_vars

\* C25 witness: a snapshot was returned after record_request calls had
\* counted a request and an error, and the counters still hold them
C25_Witness ==
    \E t \in Tasks :
        /\ entry[t] = "get_metrics"
        /\ pc[t] = "returned"
        /\ ret[t] # << >>
        /\ ret[t][1].total_requests >= 1
        /\ ret[t][1].error_rate.num >= 1
        /\ metrics.request_count >= ret[t][1].total_requests
        /\ metrics.error_count >= 1
        /\ \E u \in Tasks : entry[u] = "record_request" /\ pc[u] = "returned"
====
